---- MODULE Spec2Model ----
(***************************************************************************)
(* Model of core/econf/conf.go: the Configuration store (tree, resolved-   *)
(* key cache, merge, flatten, change detection, watch dispatch, Sub and    *)
(* the data-source reload loop).                                           *)
(*                                                                         *)
(* Strings are sequences of one-character strings, so that Split, the key  *)
(* join of lookup and strings.HasPrefix are computed, not assumed.         *)
(* Go maps are objects of a heap (heap : id -> [segment -> value]); a map  *)
(* value stored in another map is a reference, as in Go, so two paths of a *)
(* tree can reach the same object.                                         *)
(***************************************************************************)
EXTENDS Integers, Sequences, FiniteSets, TLC

\* ------------------------------------------------------------------ bounds
MaxObj == 7
MaxOnChange == 1
MaxWatch == 1
MaxSignals == 1

\* ------------------------------------------------------------------ strings
defaultKeyDelim == "."

\* strings.Split(s, d) for a one-character delimiter d
RECURSIVE Split(_, _)
Split(s, d) ==
  IF \A i \in 1..Len(s) : s[i] # d
  THEN <<s>>
  ELSE LET i == CHOOSE i \in 1..Len(s) : s[i] = d /\ \A j \in 1..(i - 1) : s[j] # d
       IN  <<SubSeq(s, 1, i - 1)>> \o Split(SubSeq(s, i + 1, Len(s)), d)

\* strings.HasPrefix(s, p)
HasPrefix(s, p) == Len(p) <= Len(s) /\ SubSeq(s, 1, Len(p)) = p

\* pp of lookup: fmt.Sprintf("%s%s%s", prefix, sep, k), or k when prefix == ""
JoinKey(prefix, sep, k) == IF prefix = <<>> THEN k ELSE prefix \o <<sep>> \o k

\* an order on strings, used only to number the map objects the same way in
\* every state (object ids carry no meaning)
CharRank(ch) ==
  CASE ch = "." -> 0 [] ch = "a" -> 1 [] ch = "b" -> 2 [] ch = "x" -> 3
    [] ch = "y" -> 4 [] OTHER -> 5
RECURSIVE StrLess(_, _)
StrLess(s, t) ==
  IF t = <<>> THEN FALSE
  ELSE IF s = <<>> THEN TRUE
  ELSE IF CharRank(Head(s)) # CharRank(Head(t)) THEN CharRank(Head(s)) < CharRank(Head(t))
  ELSE StrLess(Tail(s), Tail(t))
RECURSIVE SortKeys(_)
SortKeys(S) ==
  IF S = {} THEN <<>>
  ELSE LET m == CHOOSE x \in S : \A y \in S \ {x} : ~StrLess(y, x)
       IN  <<m>> \o SortKeys(S \ {m})

\* ------------------------------------------------------------------ values
\* interface{} values: nil, an int, a string constant, or a reference to a map
Nil == [k |-> "nil", n |-> 0]
IntV(i) == [k |-> "int", n |-> i]
StrV(i) == [k |-> "str", n |-> i]
MapRef(id) == [k |-> "map", n |-> id]
IsMap(v) == v.k = "map"

\* a decoded payload, before it is placed in memory: segment -> PLeaf | PMap
PLeaf(v) == [k |-> v.k, n |-> v.n, m |-> <<>>]
PMap(f) == [k |-> "pmap", n |-> 0, m |-> f]

\* ------------------------------------------------------------------ heap
EmptyMap == <<>>

SetMin(S) == CHOOSE x \in S : \A y \in S : x <= y

FreeIds(h) == (1..MaxObj) \ DOMAIN h

\* make(map[string]interface{}): the object gets the lowest unused id
NewId(h) == SetMin(FreeIds(h))

WithObj(h, id, obj) == [x \in DOMAIN h \cup {id} |-> IF x = id THEN obj ELSE h[x]]

\* m[k] = v
Put(h, o, k, v) ==
  [h EXCEPT ![o] = [x \in DOMAIN h[o] \cup {k} |-> IF x = k THEN v ELSE h[o][x]]]

\* number of map objects a decoded payload needs
RECURSIVE PSize(_)
RECURSIVE PSizeKeys(_, _)
PSizeKeys(f, ks) ==
  IF ks = {} THEN 0
  ELSE LET k == CHOOSE k \in ks : TRUE
       IN  (IF f[k].k = "pmap" THEN PSize(f[k].m) ELSE 0) + PSizeKeys(f, ks \ {k})
PSize(f) == 1 + PSizeKeys(f, DOMAIN f)

\* the decoder's output placed in memory: fresh objects, no sharing
RECURSIVE AllocTree(_, _)
RECURSIVE AllocEntries(_, _, _, _)
AllocEntries(h, id, f, ks) ==
  IF ks = {} THEN [h |-> h, id |-> id]
  ELSE LET k == CHOOSE k \in ks : TRUE
           v == f[k]
       IN  IF v.k = "pmap"
           THEN LET r == AllocTree(h, v.m)
                IN  AllocEntries(Put(r.h, id, k, MapRef(r.id)), id, f, ks \ {k})
           ELSE AllocEntries(Put(h, id, k, [k |-> v.k, n |-> v.n]), id, f, ks \ {k})
AllocTree(h, f) ==
  LET id == NewId(h)
  IN  AllocEntries(WithObj(h, id, EmptyMap), id, f, DOMAIN f)

\* objects reachable from a set of ids
RECURSIVE Reach(_, _)
Reach(h, ids) ==
  LET next == ids \cup
              UNION {{h[o][k].n : k \in {x \in DOMAIN h[o] : IsMap(h[o][x])}} : o \in ids}
  IN  IF next = ids THEN ids ELSE Reach(h, next)

\* the ids of the maps held by function f (a map object or a cache), by key
RefSeq(f) ==
  LET ks == SortKeys({x \in DOMAIN f : IsMap(f[x])})
  IN  [i \in 1..Len(ks) |-> f[ks[i]].n]

RECURSIVE VisitOrder(_, _, _)
VisitOrder(h, todo, seen) ==
  IF todo = <<>> THEN seen
  ELSE IF \E i \in 1..Len(seen) : seen[i] = Head(todo)
       THEN VisitOrder(h, Tail(todo), seen)
       ELSE VisitOrder(h, Tail(todo) \o RefSeq(h[Head(todo)]), Append(seen, Head(todo)))

\* what the garbage collector keeps, the kept objects numbered in the order
\* a walk from the roots meets them: ov the tree roots, km the caches
Collect(h, ov, km) ==
  LET roots == <<ov["p"]>> \o (IF ov["c"] # 0 THEN <<ov["c"]>> ELSE <<>>)
                 \o RefSeq(km["p"]) \o RefSeq(km["c"])
      seen == VisitOrder(h, roots, <<>>)
      idx(o) == CHOOSE i \in 1..Len(seen) : seen[i] = o
      ren(v) == IF IsMap(v) THEN MapRef(idx(v.n)) ELSE v
  IN  [heap |-> [i \in 1..Len(seen) |-> [k \in DOMAIN h[seen[i]] |-> ren(h[seen[i]][k])]],
       override |-> [c \in DOMAIN ov |-> IF ov[c] = 0 THEN 0 ELSE idx(ov[c])],
       keyMap |-> [c \in DOMAIN km |-> [key \in DOMAIN km[c] |-> ren(km[c][key])]]]

\* a map reaches itself: every walk of the tree from it recurses without end
Cyclic(h, root) ==
  \E o \in Reach(h, {root}) :
    o \in Reach(h, {h[o][k].n : k \in {x \in DOMAIN h[o] : IsMap(h[o][x])}})

\* the tree under an object as a value (no ids), for comparing trees
RECURSIVE TreeVal(_, _)
TreeVal(h, o) ==
  [k \in DOMAIN h[o] |->
     IF IsMap(h[o][k]) THEN PMap(TreeVal(h, h[o][k].n)) ELSE PLeaf(h[o][k])]

\* ------------------------------------------------------------------ xmap
\* xmap.MergeStringMap(dest, src): the in-place deep union. One iteration of
\* its range over src: both sides a map, recurse; otherwise dest[sk] = sv.
\* Go leaves the order of a range over a map open, and an entry added to the
\* map during the range may or may not be produced, so the result is a set.
RECURSIVE MergeRange(_, _, _, _, _)
MergeEntry(h, dest, src, sk) ==
  LET sv == h[src][sk]
  IN  IF sk \in DOMAIN h[dest] /\ IsMap(h[dest][sk]) /\ IsMap(sv)
      THEN MergeRange(h, h[dest][sk].n, sv.n, DOMAIN h[sv.n], {})
      ELSE {Put(h, dest, sk, sv)}
MergeRange(h, dest, src, orig, visited) ==
  LET cand == DOMAIN h[src] \ visited
  IN  (IF cand \cap orig = {} THEN {h} ELSE {}) \cup
      UNION {UNION {MergeRange(h2, dest, src, orig, visited \cup {sk}) :
                      h2 \in MergeEntry(h, dest, src, sk)} : sk \in cand}
MergeStringMap(h, dest, src) == MergeRange(h, dest, src, DOMAIN h[src], {})

\* xmap.DeepSearchInMap(m, paths...): the map reached by walking paths, or
\* 0 (a nil map) when a segment is absent or holds no map. Reads only.
RECURSIVE DeepSearchInMap(_, _, _)
DeepSearchInMap(h, m, paths) ==
  IF paths = <<>> THEN m
  ELSE IF Head(paths) \in DOMAIN h[m] /\ IsMap(h[m][Head(paths)])
       THEN DeepSearchInMap(h, h[m][Head(paths)].n, Tail(paths))
       ELSE 0

\* ------------------------------------------------------------------ conf.go
\* deepSearch: walks path from m, creating a map where a segment is absent
\* or holds no map.
RECURSIVE deepSearch(_, _, _)
deepSearch(h, m, path) ==
  IF path = <<>> THEN [h |-> h, id |-> m]
  ELSE LET k == Head(path)
       IN  IF k \in DOMAIN h[m] /\ IsMap(h[m][k])
           THEN deepSearch(h, h[m][k].n, Tail(path))
           ELSE LET m3 == NewId(h)
                IN  deepSearch(Put(WithObj(h, m3, EmptyMap), m, k, MapRef(m3)),
                               m3, Tail(path))

\* lookup: the (dotted key, leaf) pairs it writes to data
RECURSIVE lookup(_, _, _, _)
lookup(prefix, h, target, sep) ==
  UNION {LET pp == JoinKey(prefix, sep, k)
         IN  IF IsMap(h[target][k])
             THEN lookup(pp, h, h[target][k].n, sep)
             ELSE {<<pp, h[target][k]>>} : k \in DOMAIN h[target]}

\* traverse: the data maps lookup can leave. Two leaves with one dotted key
\* write the same entry, and the range order decides which write is last.
traverse(h, root, sep) ==
  LET L == lookup(<<>>, h, root, sep)
      keys == {l[1] : l \in L}
  IN  IF Cardinality(L) = Cardinality(keys)
      THEN {[key \in keys |-> (CHOOSE l \in L : l[1] = key)[2]]}
      ELSE {f \in [keys -> {l[2] : l \in L}] : \A key \in keys : <<key, f[key]>> \in L}

\* notifyChanges with the match bound to the delimiter: the key is the prefix
\* or continues it with the delimiter
notifyChanges_DelimAware(w, changes) ==
  LET changedWatchPrefixMap ==
        {watchPrefix \in DOMAIN w :
           \E key \in changes : key = watchPrefix \/
                                HasPrefix(key, watchPrefix \o <<defaultKeyDelim>>)}
  IN  [cb \in UNION {{<<p, i>> : i \in 1..w[p]} : p \in DOMAIN w} |->
         IF cb[1] \in changedWatchPrefixMap THEN 1 ELSE 0]

\* notifyChanges: how many times each watch callback <<prefix, i>> is started
notifyChanges(w, changes) ==
  LET changedWatchPrefixMap ==
        {watchPrefix \in DOMAIN w : \E key \in changes : HasPrefix(key, watchPrefix)}
  IN  [cb \in UNION {{<<p, i>> : i \in 1..w[p]} : p \in DOMAIN w} |->
         IF cb[1] \in changedWatchPrefixMap THEN 1 ELSE 0]

\* ------------------------------------------------------------------ state
VARIABLES
  heap,       \* the map objects
  override,   \* per Configuration: its tree's root object (0: not created)
  keyMap,     \* per Configuration: dotted key -> cached value
  onChanges,  \* number of callbacks in c.onChanges
  watchers,   \* watch prefix -> number of callbacks under it
  rawConfig,  \* c.rawConfig
  target,     \* the rawVal the caller hands to UnmarshalKey
  loop,       \* the goroutine of LoadFromDataSource: none, hook, wait, done
  signals,    \* change signals sent and not yet received
  stream,     \* the provider's change stream: open or closed
  crashed,    \* the process died (a walk of a cyclic tree overflows the stack)
  early,      \* a watch callback was started by or after the initial merge of
              \* LoadFromDataSource and before the initial OnChange pass
  atCall,     \* len(c.onChanges) when LoadFromDataSource was called
  skipped,    \* a round of the reload loop failed to read or to decode
  mu,         \* c.mu: the task holding Lock, the RLocks held, the tasks waiting in Lock
  pc,         \* per task: where it is inside the call it runs
  last,       \* the operation that ran last, with what it returned
  gen         \* what the last operation merged, changed and called

vars == <<heap, override, keyMap, onChanges, watchers, rawConfig, target, loop,
          signals, stream, crashed, early, atCall, skipped, mu, pc, last, gen>>

Parent == "p"
Child == "c"
Configs == {Parent, Child}

\* ------------------------------------------------------------------ inputs
sa == <<"a">>
sb == <<"b">>
sx == <<"x">>
sy == <<"y">>
sab == <<"a", "b">>
dot == <<".">>

\* Unmarshaller: content -> (mapping, error). "BAD" does not decode.
Decodes(content) == content # "BAD"
Payload(content) ==
  CASE content = "A1"  -> (sa :> PLeaf(IntV(1)))
    [] content = "A2"  -> (sa :> PLeaf(IntV(2)))
    [] content = "B2"  -> (sb :> PLeaf(IntV(2)))
    [] content = "AX1" -> (sa :> PMap(sx :> PLeaf(IntV(1))))
    [] content = "AY2" -> (sa :> PMap(sy :> PLeaf(IntV(2))))
    [] content = "AS"  -> (sa :> PLeaf(StrV(1)))
    [] content = "AAB2" -> (sa :> PMap(sa :> PMap(sb :> PLeaf(IntV(2)))))
    [] content = "AB2"  -> (sa :> PMap(sb :> PLeaf(IntV(2))))
    [] content = "DAB1" -> (sa \o dot \o sb :> PLeaf(IntV(1)))
    [] content = "DAX3" -> (sa \o dot \o sx :> PLeaf(IntV(3)))
    [] OTHER -> EmptyMap

NoWatch == <<>>
NoGen == [merged |-> FALSE, changes |-> {}, watch |-> NoWatch, global |-> 0]
\* again: the operation repeats the one before it, which returned no error
Op(op, c, key, val, content, err) ==
  [op |-> op, c |-> c, key |-> key, val |-> val, content |-> content, err |-> err,
   again |-> (err = "nil" /\ last.err = "nil" /\ last.op = op /\ last.c = c /\
              last.key = key /\ last.val = val /\ last.content = content)]
NoVal == PLeaf(Nil)

\* a value as the caller sees it: a scalar, or the tree under a map
ValOf(h, v) == IF IsMap(v) THEN PMap(TreeVal(h, v.n)) ELSE PLeaf(v)

W(c) == IF c = Parent THEN watchers ELSE NoWatch

\* keyMap.Store(k, v)
Store(km, key, v) == [x \in DOMAIN km \cup {key} |-> IF x = key THEN v ELSE km[x]]

\* apply with keyMap.LoadOrStore in place of keyMap.Store: a cached entry is
\* never overwritten
apply_LoadOrStore(c, h, src) ==
  UNION {IF Cyclic(h2, override[c])
         THEN {[h |-> h2, km |-> keyMap[c], changes |-> {}, watch |-> NoWatch,
                crashed |-> TRUE]}
         ELSE {LET changes == {key \in DOMAIN data :
                                 key \in DOMAIN keyMap[c] /\ keyMap[c][key] # data[key]}
               IN  [h |-> h2,
                    km |-> [key \in DOMAIN keyMap[c] \cup DOMAIN data |->
                              IF key \in DOMAIN keyMap[c] THEN keyMap[c][key]
                              ELSE data[key]],
                    changes |-> changes,
                    watch |-> IF changes # {} THEN notifyChanges(W(c), changes)
                              ELSE NoWatch,
                    crashed |-> FALSE] : data \in traverse(h2, override[c], defaultKeyDelim)}
         : h2 \in MergeStringMap(h, override[c], src)}

\* apply(conf), conf being object src of heap h: merge, flatten, diff against
\* the cache, store, notify. The outcomes: the heap, the cache, the ChangeSet,
\* the watch callbacks started.
apply(c, h, src) ==
  UNION {IF Cyclic(h2, override[c])
         THEN {[h |-> h2, km |-> keyMap[c], changes |-> {}, watch |-> NoWatch,
                crashed |-> TRUE]}
         ELSE {LET changes == {key \in DOMAIN data :
                                 key \in DOMAIN keyMap[c] /\ keyMap[c][key] # data[key]}
               IN  [h |-> h2,
                    km |-> [key \in DOMAIN keyMap[c] \cup DOMAIN data |->
                              IF key \in DOMAIN data THEN data[key] ELSE keyMap[c][key]],
                    changes |-> changes,
                    watch |-> IF changes # {} THEN notifyChanges(W(c), changes)
                              ELSE NoWatch,
                    crashed |-> FALSE] : data \in traverse(h2, override[c], defaultKeyDelim)}
         : h2 \in MergeStringMap(h, override[c], src)}

Started(o) == \E cb \in DOMAIN o.watch : o.watch[cb] > 0

\* the state after a merge generation with outcome o; beforeHook: the initial
\* OnChange pass of LoadFromDataSource is still to run
Merged(c, o, beforeHook) ==
  /\ LET g == Collect(o.h, override, [keyMap EXCEPT ![c] = o.km])
     IN  heap' = g.heap /\ keyMap' = g.keyMap
  /\ crashed' = o.crashed
  /\ early' = (early \/ (c = Parent /\ beforeHook /\ Started(o)))

GenOf(o, calls) ==
  [merged |-> TRUE, changes |-> o.changes, watch |-> o.watch, global |-> calls]

\* one pass of "for _, change := range c.onChanges { change(c) }": how many
\* times each registered callback is called
HookPass == IF onChanges > 0 THEN 1 ELSE 0

\* the tasks (goroutines): two callers and the goroutine of LoadFromDataSource
Callers == {"t1", "t2"}
Loop == "bg"
Tasks == Callers \cup {Loop}

\* sync.RWMutex: w the task inside Lock ("" for none), r the RLocks each task
\* holds, q the tasks blocked in Lock. A blocked Lock keeps new RLocks out.
MuFree == [w |-> "", r |-> [t \in Tasks |-> 0], q |-> {}]
CanLock == mu.w = "" /\ \A u \in Tasks : mu.r[u] = 0
CanRLock == mu.w = "" /\ mu.q = {}

\* a task's position: at, the call it runs (op) with its arguments, the map m
\* it holds (0 for none); for the loop, the callbacks its pass has left to
\* call, and whether the running callback has made its call
Idle == [at |-> "idle", op |-> "", key |-> <<>>, val |-> Nil, content |-> "", m |-> 0,
         left |-> 0, called |-> FALSE]

Init ==
  /\ heap = <<EmptyMap>>
  /\ override = (Parent :> 1) @@ (Child :> 0)
  /\ keyMap = (Parent :> <<>>) @@ (Child :> <<>>)
  /\ onChanges = 0
  /\ watchers = NoWatch
  /\ rawConfig = "NONE"
  /\ target = NoVal
  /\ loop = "none"
  /\ signals = 0
  /\ stream = "open"
  /\ crashed = FALSE
  /\ early = FALSE
  /\ atCall = 0
  /\ skipped = FALSE
  /\ mu = MuFree
  /\ pc = [t \in Tasks |-> Idle]
  /\ last = [op |-> "New", c |-> Parent, key |-> <<>>, val |-> NoVal, content |-> "",
             err |-> "nil", again |-> FALSE]
  /\ gen = NoGen

\* Load(content, unmarshal)
Load(c, content) ==
  /\ ~crashed /\ override[c] # 0
  /\ rawConfig' = IF c = Parent THEN content ELSE rawConfig
  /\ IF ~Decodes(content)
     THEN /\ last' = Op("Load", c, <<>>, NoVal, content, "decode")
          /\ gen' = NoGen
          /\ UNCHANGED <<heap, override, keyMap, onChanges, watchers, target, loop,
                         signals, stream, crashed, early, atCall, skipped, mu, pc>>
     ELSE /\ Cardinality(FreeIds(heap)) >= PSize(Payload(content))
          /\ LET r == AllocTree(heap, Payload(content))
             IN  \E o \in apply(c, r.h, r.id) :
                   /\ Merged(c, o, loop = "hook")
                   /\ gen' = GenOf(o, 0)
          /\ last' = Op("Load", c, <<>>, NoVal, content, "nil")
          /\ UNCHANGED <<override, onChanges, watchers, target, loop, signals, stream,
                         atCall, skipped, mu, pc>>

\* LoadFromReader(reader, unmarshaller): ioutil.ReadAll, then Load
LoadFromReader(c, readOk, content) ==
  IF readOk
  THEN Load(c, content)
  ELSE /\ ~crashed /\ override[c] # 0
       /\ last' = Op("LoadFromReader", c, <<>>, NoVal, "", "read")
       /\ gen' = NoGen
       /\ UNCHANGED <<heap, override, keyMap, onChanges, watchers, rawConfig, target,
                      loop, signals, stream, crashed, early, atCall, skipped, mu, pc>>

\* Set(key, val)
Set(c, key, val) ==
  /\ ~crashed /\ override[c] # 0
  /\ LET paths == Split(key, defaultKeyDelim)
         lastKey == paths[Len(paths)]
     IN  /\ Cardinality(FreeIds(heap)) >= Len(paths) - 1
         /\ LET r == deepSearch(heap, override[c], SubSeq(paths, 1, Len(paths) - 1))
                m == r.id
            IN  \E o \in apply(c, Put(r.h, m, lastKey, val), m) :
                  /\ Merged(c, o, loop = "hook")
                  /\ gen' = GenOf(o, 0)
  /\ last' = Op("Set", c, key, PLeaf(val), "", "nil")
  /\ UNCHANGED <<override, onChanges, watchers, rawConfig, target, loop, signals, stream,
                 atCall, skipped, mu, pc>>

\* find(key): the cached value if the key is cached (a cached nil included),
\* else the value read from the tree, which is cached
find(c, key) ==
  IF key \in DOMAIN keyMap[c]
  THEN [dd |-> keyMap[c][key], km |-> keyMap[c]]
  ELSE LET paths == Split(key, defaultKeyDelim)
           m == DeepSearchInMap(heap, override[c], SubSeq(paths, 1, Len(paths) - 1))
           dd == IF m # 0 /\ paths[Len(paths)] \in DOMAIN heap[m]
                 THEN heap[m][paths[Len(paths)]] ELSE Nil
       IN  [dd |-> dd, km |-> Store(keyMap[c], key, dd)]

\* cast.ToInt: an int is itself, anything else gives 0
ToInt(v) == IF v.k = "int" THEN IntV(v.n) ELSE IntV(0)

\* the state after find(key) returned f
Found(c, f) ==
  LET g == Collect(heap, override, [keyMap EXCEPT ![c] = f.km])
  IN  heap' = g.heap /\ keyMap' = g.keyMap

\* Get(key)
Get(c, key) ==
  /\ ~crashed /\ override[c] # 0
  /\ LET f == find(c, key)
     IN  /\ Found(c, f)
         /\ last' = Op("Get", c, key, ValOf(heap, f.dd), "", "nil")
  /\ gen' = NoGen
  /\ UNCHANGED <<override, onChanges, watchers, rawConfig, target, loop, signals,
                 stream, crashed, early, atCall, skipped, mu, pc>>

\* GetInt(key)
GetInt(c, key) ==
  /\ ~crashed /\ override[c] # 0
  /\ LET f == find(c, key)
     IN  /\ Found(c, f)
         /\ last' = Op("GetInt", c, key, PLeaf(ToInt(f.dd)), "", "nil")
  /\ gen' = NoGen
  /\ UNCHANGED <<override, onChanges, watchers, rawConfig, target, loop, signals,
                 stream, crashed, early, atCall, skipped, mu, pc>>

\* UnmarshalKey without the "value == nil" test: a missing key is decoded
UnmarshalKey_NoNilTest(c, key, fits) ==
  /\ ~crashed /\ override[c] # 0
  /\ IF key = <<>>
     THEN /\ target' = IF fits THEN PMap(TreeVal(heap, override[c])) ELSE target
          /\ last' = Op("UnmarshalKey", c, key, NoVal, "",
                                        IF fits THEN "nil" ELSE "decode")
          /\ UNCHANGED <<heap, keyMap>>
     ELSE LET f == find(c, key)
          IN  /\ Found(c, f)
              /\ target' = IF fits THEN ValOf(heap, f.dd) ELSE target
              /\ last' = Op("UnmarshalKey", c, key, NoVal, "",
                                        IF fits THEN "nil" ELSE "decode")
  /\ gen' = NoGen
  /\ UNCHANGED <<override, onChanges, watchers, rawConfig, loop, signals, stream,
                 crashed, early, atCall, skipped, mu, pc>>

\* UnmarshalKey(key, rawVal): fits says whether mapstructure can decode the
\* value into the caller's rawVal
UnmarshalKey(c, key, fits) ==
  /\ ~crashed /\ override[c] # 0
  /\ IF key = <<>>
     THEN /\ target' = IF fits THEN PMap(TreeVal(heap, override[c])) ELSE target
          /\ last' = Op("UnmarshalKey", c, key, NoVal, "",
                                        IF fits THEN "nil" ELSE "decode")
          /\ UNCHANGED <<heap, keyMap>>
     ELSE LET f == find(c, key)
          IN  /\ Found(c, f)
              /\ IF f.dd = Nil
                 THEN /\ target' = target
                      /\ last' = Op("UnmarshalKey", c, key, NoVal, "", "ErrInvalidKey")
                 ELSE /\ target' = IF fits THEN ValOf(heap, f.dd) ELSE target
                      /\ last' = Op("UnmarshalKey", c, key, NoVal, "",
                                        IF fits THEN "nil" ELSE "decode")
  /\ gen' = NoGen
  /\ UNCHANGED <<override, onChanges, watchers, rawConfig, loop, signals, stream,
                 crashed, early, atCall, skipped, mu, pc>>

\* cast.ToStringMap and Sub(key): a map value is returned as it is (the same
\* object), anything else gives a new empty map
Sub(key) ==
  /\ ~crashed /\ override[Child] = 0
  /\ Cardinality(FreeIds(heap)) >= 1
  /\ LET f == find(Parent, key)
         h == IF IsMap(f.dd) THEN heap ELSE WithObj(heap, NewId(heap), EmptyMap)
         m == IF IsMap(f.dd) THEN f.dd.n ELSE NewId(heap)
         g == Collect(h, [override EXCEPT ![Child] = m],
                      [keyMap EXCEPT ![Parent] = f.km, ![Child] = <<>>])
     IN  heap' = g.heap /\ override' = g.override /\ keyMap' = g.keyMap
  /\ last' = Op("Sub", Parent, key, NoVal, "", "nil")
  /\ gen' = NoGen
  /\ UNCHANGED <<onChanges, watchers, rawConfig, target, loop, signals, stream,
                 crashed, early, atCall, skipped, mu, pc>>

\* OnChange(fn)
OnChange ==
  /\ ~crashed /\ onChanges < MaxOnChange
  /\ onChanges' = onChanges + 1
  /\ last' = Op("OnChange", Parent, <<>>, NoVal, "", "nil")
  /\ gen' = NoGen
  /\ UNCHANGED <<heap, override, keyMap, watchers, rawConfig, target, loop, signals,
                 stream, crashed, early, atCall, skipped, mu, pc>>

\* registration of a watch callback under a prefix
Watch(prefix) ==
  /\ ~crashed
  /\ prefix \in DOMAIN watchers => watchers[prefix] < MaxWatch
  /\ watchers' = [p \in DOMAIN watchers \cup {prefix} |->
                    IF p = prefix
                    THEN (IF p \in DOMAIN watchers THEN watchers[p] + 1 ELSE 1)
                    ELSE watchers[p]]
  /\ last' = Op("Watch", Parent, prefix, NoVal, "", "nil")
  /\ gen' = NoGen
  /\ UNCHANGED <<heap, override, keyMap, onChanges, rawConfig, target, loop, signals,
                 stream, crashed, early, atCall, skipped, mu, pc>>

\* LoadFromDataSource with the error of the initial Load dropped as the loop
\* drops it ("_ = c.Load(...)"): the goroutine starts whatever Load returned
LoadFromDataSource_DropLoadErr(readOk, content) ==
  /\ ~crashed /\ loop = "none"
  /\ IF ~readOk
     THEN /\ last' = Op("LoadFromDataSource", Parent, <<>>, NoVal, "", "read")
          /\ gen' = NoGen
          /\ UNCHANGED <<heap, override, keyMap, onChanges, watchers, rawConfig,
                         target, loop, signals, stream, crashed, early, atCall, skipped, mu, pc>>
     ELSE /\ rawConfig' = content
          /\ IF ~Decodes(content)
             THEN /\ last' = Op("LoadFromDataSource", Parent, <<>>, NoVal, content, "nil")
                  /\ gen' = NoGen
                  /\ loop' = "hook"
                  /\ atCall' = onChanges
                  /\ UNCHANGED <<heap, override, keyMap, onChanges, watchers, target,
                                 signals, stream, crashed, early, skipped, mu, pc>>
             ELSE /\ Cardinality(FreeIds(heap)) >= PSize(Payload(content))
                  /\ LET r == AllocTree(heap, Payload(content))
                     IN  \E o \in apply(Parent, r.h, r.id) :
                           /\ Merged(Parent, o, TRUE)
                           /\ gen' = GenOf(o, 0)
                           /\ loop' = IF o.crashed THEN "none" ELSE "hook"
                  /\ atCall' = onChanges
                  /\ last' = Op("LoadFromDataSource", Parent, <<>>, NoVal, content, "nil")
                  /\ UNCHANGED <<override, onChanges, watchers, target, signals, stream,
                                 skipped, mu, pc>>

\* LoadFromDataSource(ds, unmarshaller): ReadConfig, Load, then the goroutine
LoadFromDataSource(readOk, content) ==
  /\ ~crashed /\ loop = "none"
  /\ IF ~readOk
     THEN /\ last' = Op("LoadFromDataSource", Parent, <<>>, NoVal, "", "read")
          /\ gen' = NoGen
          /\ UNCHANGED <<heap, override, keyMap, onChanges, watchers, rawConfig,
                         target, loop, signals, stream, crashed, early, atCall, skipped, mu, pc>>
     ELSE /\ rawConfig' = content
          /\ IF ~Decodes(content)
             THEN /\ last' = Op("LoadFromDataSource", Parent, <<>>, NoVal, content, "decode")
                  /\ gen' = NoGen
                  /\ UNCHANGED <<heap, override, keyMap, onChanges, watchers, target,
                                 loop, signals, stream, crashed, early, atCall, skipped, mu, pc>>
             ELSE /\ Cardinality(FreeIds(heap)) >= PSize(Payload(content))
                  /\ LET r == AllocTree(heap, Payload(content))
                     IN  \E o \in apply(Parent, r.h, r.id) :
                           /\ Merged(Parent, o, TRUE)
                           /\ gen' = GenOf(o, 0)
                           /\ loop' = IF o.crashed THEN "none" ELSE "hook"
                  /\ atCall' = onChanges
                  /\ last' = Op("LoadFromDataSource", Parent, <<>>, NoVal, content, "nil")
                  /\ UNCHANGED <<override, onChanges, watchers, target, signals, stream,
                                 skipped, mu, pc>>

\* the goroutine's first step: the OnChange pass for the initial load
LoopInitialHook ==
  /\ ~crashed /\ loop = "hook"
  /\ loop' = "wait"
  /\ gen' = [NoGen EXCEPT !.global = HookPass]
  /\ last' = Op("InitialHook", Parent, <<>>, NoVal, "", "nil")
  /\ UNCHANGED <<heap, override, keyMap, onChanges, watchers, rawConfig, target,
                 signals, stream, crashed, early, atCall, skipped, mu, pc>>

\* the reload loop leaving its range ("return") on the first round that fails
\* to read or to decode
LoopReload_StopOnError(readOk, content) ==
  /\ ~crashed /\ loop = "wait" /\ signals > 0
  /\ signals' = signals - 1
  /\ IF ~readOk
     THEN /\ last' = Op("Reload", Parent, <<>>, NoVal, "", "read")
          /\ gen' = NoGen
          /\ skipped' = TRUE
          /\ loop' = "done"
          /\ UNCHANGED <<heap, override, keyMap, onChanges, watchers, rawConfig,
                         target, stream, crashed, early, atCall, mu, pc>>
     ELSE /\ rawConfig' = content
          /\ IF ~Decodes(content)
             THEN /\ last' = Op("Reload", Parent, <<>>, NoVal, content, "decode")
                  /\ gen' = [NoGen EXCEPT !.global = HookPass]
                  /\ skipped' = TRUE
                  /\ loop' = "done"
                  /\ UNCHANGED <<heap, override, keyMap, onChanges, watchers, target,
                                 stream, crashed, early, atCall, mu, pc>>
             ELSE /\ Cardinality(FreeIds(heap)) >= PSize(Payload(content))
                  /\ LET r == AllocTree(heap, Payload(content))
                     IN  \E o \in apply(Parent, r.h, r.id) :
                           /\ Merged(Parent, o, FALSE)
                           /\ gen' = GenOf(o, IF o.crashed THEN 0 ELSE HookPass)
                  /\ last' = Op("Reload", Parent, <<>>, NoVal, content, "nil")
                  /\ UNCHANGED <<override, onChanges, watchers, target, loop, stream,
                                 atCall, skipped, mu, pc>>

\* one round of "for range ds.IsConfigChanged()": ReadConfig; if it gave
\* content, Load (its error dropped) and an OnChange pass
LoopReload(readOk, content) ==
  /\ ~crashed /\ loop = "wait" /\ signals > 0
  /\ signals' = signals - 1
  /\ IF ~readOk
     THEN /\ last' = Op("Reload", Parent, <<>>, NoVal, "", "read")
          /\ gen' = NoGen
          /\ skipped' = TRUE
          /\ UNCHANGED <<heap, override, keyMap, onChanges, watchers, rawConfig,
                         target, loop, stream, crashed, early, atCall, mu, pc>>
     ELSE /\ rawConfig' = content
          /\ IF ~Decodes(content)
             THEN /\ last' = Op("Reload", Parent, <<>>, NoVal, content, "decode")
                  /\ gen' = [NoGen EXCEPT !.global = HookPass]
                  /\ skipped' = TRUE
                  /\ UNCHANGED <<heap, override, keyMap, onChanges, watchers, target,
                                 loop, stream, crashed, early, atCall, mu, pc>>
             ELSE /\ Cardinality(FreeIds(heap)) >= PSize(Payload(content))
                  /\ LET r == AllocTree(heap, Payload(content))
                     IN  \E o \in apply(Parent, r.h, r.id) :
                           /\ Merged(Parent, o, FALSE)
                           /\ gen' = GenOf(o, IF o.crashed THEN 0 ELSE HookPass)
                  /\ last' = Op("Reload", Parent, <<>>, NoVal, content, "nil")
                  /\ UNCHANGED <<override, onChanges, watchers, target, loop, stream,
                                 atCall, skipped, mu, pc>>

\* the range loop ending when no signal is pending, the stream open or not
LoopExit_NoCloseTest ==
  /\ ~crashed /\ loop = "wait" /\ signals = 0
  /\ loop' = "done"
  /\ last' = Op("LoopExit", Parent, <<>>, NoVal, "", "nil")
  /\ gen' = NoGen
  /\ UNCHANGED <<heap, override, keyMap, onChanges, watchers, rawConfig, target,
                 signals, stream, crashed, early, atCall, skipped, mu, pc>>

\* the change stream ended: the range loop and the goroutine end
LoopExit ==
  /\ ~crashed /\ loop = "wait" /\ signals = 0 /\ stream = "closed"
  /\ loop' = "done"
  /\ last' = Op("LoopExit", Parent, <<>>, NoVal, "", "nil")
  /\ gen' = NoGen
  /\ UNCHANGED <<heap, override, keyMap, onChanges, watchers, rawConfig, target,
                 signals, stream, crashed, early, atCall, skipped, mu, pc>>

\* the provider sends a change signal
Signal ==
  /\ ~crashed /\ loop \in {"hook", "wait"} /\ stream = "open" /\ signals < MaxSignals
  /\ signals' = signals + 1
  /\ UNCHANGED <<heap, override, keyMap, onChanges, watchers, rawConfig, target, loop,
                 stream, crashed, early, atCall, skipped, mu, pc, last, gen>>

\* the provider closes its change stream
Close ==
  /\ ~crashed /\ loop \in {"hook", "wait"} /\ stream = "open"
  /\ stream' = "closed"
  /\ UNCHANGED <<heap, override, keyMap, onChanges, watchers, rawConfig, target, loop,
                 signals, crashed, early, atCall, skipped, mu, pc, last, gen>>

\* what Get(key) returns in this state
GetResult(c, key) == ValOf(heap, find(c, key).dd)

\* ------------------------------------------------------------------ the calls step by step
\* The same methods cut at their lock operations, for tasks that run at the
\* same time. All of them act on the parent Configuration.

\* t may begin a call: a caller that is in none, or the loop inside a
\* callback of its pass (a callback makes at most one call)
CanStart(t) ==
  \/ t \in Callers /\ pc[t].at = "idle"
  \/ t = Loop /\ pc[t].at = "cb" /\ ~pc[t].called

\* t's position when its call begins and when it returns
Enter(t, at, op, key, val, content, m) ==
  [pc[t] EXCEPT !.at = at, !.op = op, !.key = key, !.val = val, !.content = content,
                !.m = m, !.called = (t = Loop)]
Ret(t) ==
  IF t = Loop THEN [Idle EXCEPT !.at = "cb", !.left = pc[t].left, !.called = TRUE]
  ELSE Idle

\* another task holds a map it has still to hand to apply
Held(t) == \E u \in Tasks \ {t} : pc[u].m # 0

\* u is inside a section c.mu guards
Inside(u) == mu.w = u \/ mu.r[u] > 0

\* heap and cache after a step of t: unreachable objects are dropped unless
\* a task holds one
Settled(t, h, km) ==
  IF Held(t)
  THEN heap' = h /\ keyMap' = [keyMap EXCEPT ![Parent] = km]
  ELSE LET g == Collect(h, override, [keyMap EXCEPT ![Parent] = km])
       IN  heap' = g.heap /\ keyMap' = g.keyMap

\* Set, up to its call of apply: deepSearch and m[lastKey] = val, with no
\* lock. If another task is inside a locked section, the map is read or
\* written by two goroutines at once: the Go runtime may abort the process
\* ("concurrent map read and map write") or not notice.
Set_Write(t, key, val) ==
  /\ ~crashed /\ CanStart(t)
  /\ LET paths == Split(key, defaultKeyDelim)
         lastKey == paths[Len(paths)]
     IN  /\ Cardinality(FreeIds(heap)) >= Len(paths) - 1
         /\ LET r == deepSearch(heap, override[Parent], SubSeq(paths, 1, Len(paths) - 1))
            IN  /\ heap' = Put(r.h, r.id, lastKey, val)
                /\ pc' = [pc EXCEPT ![t] = Enter(t, "lock", "Set", key, val, "", r.id)]
  /\ crashed' \in (IF \E u \in Tasks \ {t} : Inside(u) THEN BOOLEAN ELSE {FALSE})
  /\ UNCHANGED <<override, keyMap, onChanges, watchers, rawConfig, target, loop, signals,
                 stream, early, atCall, skipped, mu, last, gen>>

\* Load, up to its call of apply, alone or as the first part of
\* LoadFromDataSource (ReadConfig having succeeded)
Load_Decode(t, op, content) ==
  /\ ~crashed /\ CanStart(t)
  /\ op = "LoadFromDataSource" => (t \in Callers /\ loop = "none" /\
                                    \A u \in Tasks : pc[u].op # "LoadFromDataSource")
  /\ rawConfig' = content
  /\ IF ~Decodes(content)
     THEN /\ pc' = [pc EXCEPT ![t] = Ret(t)]
          /\ last' = Op(op, Parent, <<>>, NoVal, content, "decode")
          /\ gen' = NoGen
          /\ UNCHANGED <<heap, atCall>>
     ELSE /\ Cardinality(FreeIds(heap)) >= PSize(Payload(content))
          /\ LET r == AllocTree(heap, Payload(content))
             IN  /\ heap' = r.h
                 /\ pc' = [pc EXCEPT ![t] = Enter(t, "lock", op, <<>>, Nil, content, r.id)]
          /\ atCall' = IF op = "LoadFromDataSource" THEN onChanges ELSE atCall
          /\ UNCHANGED <<last, gen>>
  /\ UNCHANGED <<override, keyMap, onChanges, watchers, target, loop, signals, stream,
                 crashed, early, skipped, mu>>

\* OnChange, up to c.mu.Lock()
OnChange_Call(t) ==
  /\ ~crashed /\ CanStart(t)
  /\ onChanges + Cardinality({u \in Tasks : pc[u].op = "OnChange"}) < MaxOnChange
  /\ pc' = [pc EXCEPT ![t] = Enter(t, "lock", "OnChange", <<>>, Nil, "", 0)]
  /\ UNCHANGED <<heap, override, keyMap, onChanges, watchers, rawConfig, target, loop,
                 signals, stream, crashed, early, atCall, skipped, mu, last, gen>>

\* c.mu.Lock(): taken at once if nobody is inside, else the task blocks
Lock_Request(t) ==
  /\ ~crashed /\ pc[t].at = "lock"
  /\ IF CanLock
     THEN /\ mu' = [mu EXCEPT !.w = t]
          /\ pc' = [pc EXCEPT ![t].at = "locked"]
     ELSE /\ mu' = [mu EXCEPT !.q = @ \cup {t}]
          /\ pc' = [pc EXCEPT ![t].at = "waitLock"]
  /\ UNCHANGED <<heap, override, keyMap, onChanges, watchers, rawConfig, target, loop,
                 signals, stream, crashed, early, atCall, skipped, last, gen>>

\* a task blocked in c.mu.Lock() gets the lock
Lock_Acquire(t) ==
  /\ ~crashed /\ pc[t].at = "waitLock" /\ CanLock
  /\ mu' = [mu EXCEPT !.w = t, !.q = @ \ {t}]
  /\ pc' = [pc EXCEPT ![t].at = "locked"]
  /\ UNCHANGED <<heap, override, keyMap, onChanges, watchers, rawConfig, target, loop,
                 signals, stream, crashed, early, atCall, skipped, last, gen>>

\* apply, from after c.mu.Lock() to the deferred Unlock; after it
\* LoadFromDataSource starts its goroutine
apply_Run(t) ==
  /\ ~crashed /\ pc[t].at = "locked" /\ pc[t].op \in {"Set", "Load", "LoadFromDataSource"}
  /\ \E o \in apply(Parent, heap, pc[t].m) :
       /\ Settled(t, o.h, o.km)
       /\ crashed' = o.crashed
       /\ early' = (early \/ ((loop = "hook" \/ pc[t].op = "LoadFromDataSource") /\ Started(o)))
       /\ gen' = GenOf(o, 0)
       /\ loop' = IF pc[t].op = "LoadFromDataSource" /\ ~o.crashed THEN "hook" ELSE loop
  /\ last' = Op(pc[t].op, Parent, pc[t].key,
                IF pc[t].op = "Set" THEN PLeaf(pc[t].val) ELSE NoVal, pc[t].content, "nil")
  /\ mu' = [mu EXCEPT !.w = ""]
  /\ pc' = [pc EXCEPT ![t] = Ret(t)]
  /\ UNCHANGED <<override, onChanges, watchers, rawConfig, target, signals, stream,
                 atCall, skipped>>

\* OnChange, from after c.mu.Lock() to c.mu.Unlock()
OnChange_Run(t) ==
  /\ ~crashed /\ pc[t].at = "locked" /\ pc[t].op = "OnChange"
  /\ onChanges' = onChanges + 1
  /\ last' = Op("OnChange", Parent, <<>>, NoVal, "", "nil")
  /\ gen' = NoGen
  /\ mu' = [mu EXCEPT !.w = ""]
  /\ pc' = [pc EXCEPT ![t] = Ret(t)]
  /\ UNCHANGED <<heap, override, keyMap, watchers, rawConfig, target, loop, signals,
                 stream, crashed, early, atCall, skipped>>

\* Get, up to c.mu.RLock() in find: a cached key is returned with no lock
find_Call(t, key) ==
  /\ ~crashed /\ CanStart(t)
  /\ IF key \in DOMAIN keyMap[Parent]
     THEN /\ pc' = [pc EXCEPT ![t] = Ret(t)]
          /\ last' = Op("Get", Parent, key, ValOf(heap, keyMap[Parent][key]), "", "nil")
          /\ gen' = NoGen
     ELSE /\ pc' = [pc EXCEPT ![t] = Enter(t, "rlock", "Get", key, Nil, "", 0)]
          /\ UNCHANGED <<last, gen>>
  /\ UNCHANGED <<heap, override, keyMap, onChanges, watchers, rawConfig, target, loop,
                 signals, stream, crashed, early, atCall, skipped, mu>>

\* c.mu.RLock() in find: blocks while a task is inside or blocked in Lock
find_RLock(t) ==
  /\ ~crashed /\ pc[t].at = "rlock" /\ CanRLock
  /\ mu' = [mu EXCEPT !.r[t] = @ + 1]
  /\ pc' = [pc EXCEPT ![t].at = "rlocked"]
  /\ UNCHANGED <<heap, override, keyMap, onChanges, watchers, rawConfig, target, loop,
                 signals, stream, crashed, early, atCall, skipped, last, gen>>

\* find, from after c.mu.RLock() to the deferred RUnlock
find_Read(t) ==
  /\ ~crashed /\ pc[t].at = "rlocked"
  /\ LET paths == Split(pc[t].key, defaultKeyDelim)
         m == DeepSearchInMap(heap, override[Parent], SubSeq(paths, 1, Len(paths) - 1))
         dd == IF m # 0 /\ paths[Len(paths)] \in DOMAIN heap[m]
               THEN heap[m][paths[Len(paths)]] ELSE Nil
     IN  /\ Settled(t, heap, Store(keyMap[Parent], pc[t].key, dd))
         /\ last' = Op("Get", Parent, pc[t].key, ValOf(heap, dd), "", "nil")
  /\ gen' = NoGen
  /\ mu' = [mu EXCEPT !.r[t] = @ - 1]
  /\ pc' = [pc EXCEPT ![t] = Ret(t)]
  /\ UNCHANGED <<override, onChanges, watchers, rawConfig, target, loop, signals, stream,
                 crashed, early, atCall, skipped>>

\* the goroutine's c.mu.RLock() before its pass over c.onChanges
Hook_RLock ==
  /\ ~crashed /\ loop = "hook" /\ pc[Loop].at = "idle" /\ CanRLock
  /\ mu' = [mu EXCEPT !.r[Loop] = @ + 1]
  /\ pc' = [pc EXCEPT ![Loop] = [Idle EXCEPT !.at = "hook", !.left = onChanges]]
  /\ UNCHANGED <<heap, override, keyMap, onChanges, watchers, rawConfig, target, loop,
                 signals, stream, crashed, early, atCall, skipped, last, gen>>

\* change(c): the goroutine calls the next callback
Hook_Call ==
  /\ ~crashed /\ pc[Loop].at = "hook" /\ pc[Loop].left > 0
  /\ pc' = [pc EXCEPT ![Loop].at = "cb", ![Loop].called = FALSE]
  /\ UNCHANGED <<heap, override, keyMap, onChanges, watchers, rawConfig, target, loop,
                 signals, stream, crashed, early, atCall, skipped, mu, last, gen>>

\* the callback returns
Hook_Return ==
  /\ ~crashed /\ pc[Loop].at = "cb"
  /\ pc' = [pc EXCEPT ![Loop] = [Idle EXCEPT !.at = "hook", !.left = pc[Loop].left - 1]]
  /\ UNCHANGED <<heap, override, keyMap, onChanges, watchers, rawConfig, target, loop,
                 signals, stream, crashed, early, atCall, skipped, mu, last, gen>>

\* c.mu.RUnlock() after the pass; the goroutine goes on to wait for signals
Hook_RUnlock ==
  /\ ~crashed /\ pc[Loop].at = "hook" /\ pc[Loop].left = 0
  /\ mu' = [mu EXCEPT !.r[Loop] = @ - 1]
  /\ pc' = [pc EXCEPT ![Loop] = Idle]
  /\ loop' = "wait"
  /\ gen' = [NoGen EXCEPT !.global = HookPass]
  /\ last' = Op("InitialHook", Parent, <<>>, NoVal, "", "nil")
  /\ UNCHANGED <<heap, override, keyMap, onChanges, watchers, rawConfig, target,
                 signals, stream, crashed, early, atCall, skipped>>

\* ------------------------------------------------------------------ specifications
SetVals == {IntV(1), IntV(2)}

\* the store: loads, sets, reads and registrations on one Configuration
StoreContents == {"A1", "AX1"}
StoreSetKeys == {sa, sa \o dot \o sx, sab}
StoreGetKeys == {sa, sa \o dot \o sx}
WatchPrefixes == {sa, sab}

Next ==
  \/ \E content \in StoreContents : Load(Parent, content)
  \/ \E key \in StoreSetKeys, val \in SetVals : Set(Parent, key, val)
  \/ \E key \in StoreGetKeys : Get(Parent, key)
  \/ OnChange
  \/ \E prefix \in WatchPrefixes : Watch(prefix)

Spec == Init /\ [][Next]_vars

\* loads and reads: every payload of the merge examples, and one that fails to decode
LoadContents == {"A1", "B2", "AX1", "AY2", "AS", "BAD"}
LoadGetKeys == {sa, sb, sa \o dot \o sx, sa \o dot \o sy}

NextLoad ==
  \/ \E content \in LoadContents : Load(Parent, content)
  \/ \E key \in LoadGetKeys : Get(Parent, key)

SpecLoad == Init /\ [][NextLoad]_vars

\* reads of present and missing keys
ReadContents == {"A1", "AX1"}
ReadKeys == {sa, sb, sa \o dot \o sx}

NextRead ==
  \/ \E content \in ReadContents : Load(Parent, content)
  \/ \E key \in ReadKeys : Get(Parent, key)
  \/ \E key \in ReadKeys : GetInt(Parent, key)
  \/ \E key \in ReadKeys \cup {<<>>}, fits \in BOOLEAN : UnmarshalKey(Parent, key, fits)

SpecRead == Init /\ [][NextRead]_vars

\* sets of a key whose parent map holds a map of its own
AliasContents == {"AAB2"}
AliasSetKeys == {sa \o dot \o sb}
AliasGetKeys == {sa \o dot \o sb, sb}

NextAlias ==
  \/ \E content \in AliasContents : Load(Parent, content)
  \/ \E key \in AliasSetKeys, val \in SetVals : Set(Parent, key, val)
  \/ \E key \in AliasGetKeys : Get(Parent, key)
  \/ \E prefix \in {sb} : Watch(prefix)

SpecAlias == Init /\ [][NextAlias]_vars

\* a Configuration and the child Sub returns
SubContents == {"AX1"}
SubSetKeys == {sa \o dot \o sx, sx}
SubGetKeys == {sa \o dot \o sx, sx}

NextSub ==
  \/ \E content \in SubContents : Load(Parent, content)
  \/ \E c \in Configs, key \in SubSetKeys, val \in SetVals : Set(c, key, val)
  \/ \E c \in Configs, key \in SubGetKeys : Get(c, key)
  \/ \E key \in {sa} : Sub(key)

SpecSub == Init /\ [][NextSub]_vars

\* a Configuration fed by a data source
SourceContents == {"A1", "BAD"}
DSContents == {"A1", "A2", "BAD"}

NextSource ==
  \/ \E content \in SourceContents : Load(Parent, content)
  \/ \E readOk \in BOOLEAN, content \in SourceContents : LoadFromReader(Parent, readOk, content)
  \/ \E key \in {sa}, val \in SetVals : Set(Parent, key, val)
  \/ OnChange
  \/ \E prefix \in {sa} : Watch(prefix)
  \/ \E readOk \in BOOLEAN, content \in DSContents : LoadFromDataSource(readOk, content)
  \/ LoopInitialHook
  \/ \E readOk \in BOOLEAN, content \in DSContents : LoopReload(readOk, content)
  \/ LoopExit
  \/ Signal
  \/ Close

SpecSource == Init /\ [][NextSource]_vars

\* the same, the goroutine of LoadFromDataSource being scheduled again and
\* again: each of its steps is taken if it stays possible
SpecSourceLive ==
  /\ Init /\ [][NextSource]_vars
  /\ WF_vars(LoopInitialHook)
  /\ WF_vars(\E readOk \in BOOLEAN, content \in DSContents : LoopReload(readOk, content))
  /\ WF_vars(LoopExit)

\* a Configuration written only by its data source
ReloadContents == {"A1", "A2", "BAD"}

NextReload ==
  \/ OnChange
  \/ \E prefix \in {sa} : Watch(prefix)
  \/ \E key \in {sa} : Get(Parent, key)
  \/ \E readOk \in BOOLEAN, content \in ReloadContents : LoadFromDataSource(readOk, content)
  \/ LoopInitialHook
  \/ \E readOk \in BOOLEAN, content \in ReloadContents : LoopReload(readOk, content)
  \/ LoopExit
  \/ Signal
  \/ Close

SpecReload == Init /\ [][NextReload]_vars

\* loads of mappings with and without a delimiter inside a key ("a.b": 1
\* next to a: {b: 2}), and reads
FlatContents == {"A1", "AX1", "AB2", "DAB1", "DAX3"}
FlatGetKeys == {sa, sa \o dot \o sb, sa \o dot \o sx}

NextFlat ==
  \/ \E content \in FlatContents : Load(Parent, content)
  \/ \E key \in FlatGetKeys : Get(Parent, key)

SpecFlat == Init /\ [][NextFlat]_vars

\* callers and the goroutine of LoadFromDataSource running at the same time,
\* step by step
LockSetKeys == {sa \o dot \o sx}
LockGetKeys == {sa \o dot \o sx}
LockContents == {"A1"}

NextLock ==
  \/ \E t \in Tasks, key \in LockSetKeys : Set_Write(t, key, IntV(1))
  \/ \E t \in Callers, content \in LockContents : Load_Decode(t, "LoadFromDataSource", content)
  \/ \E t \in Tasks : OnChange_Call(t)
  \/ \E t \in Tasks : Lock_Request(t)
  \/ \E t \in Tasks : Lock_Acquire(t)
  \/ \E t \in Tasks : apply_Run(t)
  \/ \E t \in Tasks : OnChange_Run(t)
  \/ \E t \in Tasks, key \in LockGetKeys : find_Call(t, key)
  \/ \E t \in Tasks : find_RLock(t)
  \/ \E t \in Tasks : find_Read(t)
  \/ Hook_RLock
  \/ Hook_Call
  \/ Hook_Return
  \/ Hook_RUnlock

SpecLock == Init /\ [][NextLock]_vars

\* ------------------------------------------------------------------ claims
\* the deep union of a tree and a decoded mapping, as values
RECURSIVE DeepUnion(_, _)
DeepUnion(t, p) ==
  [k \in DOMAIN t \cup DOMAIN p |->
     IF k \notin DOMAIN p THEN t[k]
     ELSE IF k \in DOMAIN t /\ t[k].k = "pmap" /\ p[k].k = "pmap"
          THEN PMap(DeepUnion(t[k].m, p[k].m))
          ELSE p[k]]

\* the leaves of a tree value with their dotted keys
RECURSIVE PLeaves(_, _)
PLeaves(t, prefix) ==
  UNION {IF t[k].k = "pmap"
         THEN PLeaves(t[k].m, JoinKey(prefix, defaultKeyDelim, k))
         ELSE {<<JoinKey(prefix, defaultKeyDelim, k), t[k]>>} : k \in DOMAIN t}

Tree(c) == TreeVal(heap, override[c])

\* C1: a successful Load leaves the tree equal to the deep union of the tree
\* before it and the decoded mapping (both sides a mapping: recurse; otherwise
\* the new value replaces the old one; keys absent from the new mapping keep
\* their value), and Get of every leaf of that union returns the leaf.
C1_LoadDeepUnion ==
  [][\A content \in LoadContents :
       (Decodes(content) /\ Load(Parent, content)) =>
          /\ Tree(Parent)' = DeepUnion(Tree(Parent), Payload(content))
          /\ \A l \in PLeaves(DeepUnion(Tree(Parent), Payload(content)), <<>>) :
                GetResult(Parent, l[1])' = l[2]]_vars

\* C1 witness: {a:{x:1}} then {a:{y:2}} was loaded, and a.x = 1, a.y = 2
C1_Witness ==
  /\ last.op = "Load" /\ last.err = "nil" /\ last.content = "AY2"
  /\ GetResult(Parent, sa \o dot \o sx) = PLeaf(IntV(1))
  /\ GetResult(Parent, sa \o dot \o sy) = PLeaf(IntV(2))

\* the value a tree value holds at a path of segments (nil when there is none)
RECURSIVE PathVal(_, _)
PathVal(t, path) ==
  IF Head(path) \notin DOMAIN t THEN NoVal
  ELSE IF Len(path) = 1 THEN t[Head(path)]
  ELSE IF t[Head(path)].k = "pmap" THEN PathVal(t[Head(path)].m, Tail(path))
  ELSE NoVal

\* C2: right after Set(key, val) returned, Get(key) returns val and the tree
\* holds val as the leaf at the path of key.
C2_ReadYourWrites ==
  (last.op = "Set" /\ ~crashed) =>
     /\ GetResult(last.c, last.key) = last.val
     /\ PathVal(Tree(last.c), Split(last.key, defaultKeyDelim)) = last.val

\* C3: a Set with registered OnChange callbacks calls each of them exactly
\* once if it changed the value of its key, and not at all otherwise.
C3_SetCallsOnChange ==
  (last.op = "Set" /\ last.c = Parent /\ onChanges > 0 /\ ~crashed) =>
     gen.global = (IF last.key \in gen.changes THEN 1 ELSE 0)

\* p is the start of key, character by character
IsPlainPrefix(p, key) == \E n \in 0..Len(key) : SubSeq(key, 1, n) = p

C4_WitnessNoMatch ==
  /\ gen.merged /\ gen.changes # {} /\ sab \in DOMAIN watchers
  /\ gen.watch[<<sab, 1>>] = 0

ParentWrites ==
  \/ \E key \in SubSetKeys, val \in SetVals : Set(Parent, key, val)
  \/ \E content \in SubContents : Load(Parent, content)
ChildWrites == \E key \in SubSetKeys, val \in SetVals : Set(Child, key, val)

\* C5: once Sub returned the child, no Set or Load on the parent changes what
\* Get returns on the child (read before or not), and no Set on the child
\* changes what Get returns on the parent.
C5_SubIndependent ==
  [][override[Child] # 0 =>
       /\ ParentWrites =>
             \A key \in SubGetKeys : GetResult(Child, key)' = GetResult(Child, key)
       /\ ChildWrites =>
             \A key \in SubGetKeys : GetResult(Parent, key)' = GetResult(Parent, key)]_vars

\* C6: a Load of the mapping just loaded, or a Set of the key and value just
\* set, has an empty ChangeSet, starts no watch callback and leaves the tree
\* and the cache as they were.
C6_MergeIdempotent ==
  [][\A c \in Configs :
       (last'.again /\ last'.op \in {"Load", "Set"} /\ last'.c = c /\ ~crashed') =>
          /\ gen'.changes = {}
          /\ ~Started(gen')
          /\ Tree(c)' = Tree(c)
          /\ keyMap' = keyMap]_vars

Undecodable == {content \in SourceContents \cup DSContents : ~Decodes(content)}

\* C8: when the decoder fails in Load, in LoadFromReader or in the initial
\* load of LoadFromDataSource (or its initial read fails), the caller gets the
\* error, the tree and every cached value stay as they were, no watch and no
\* OnChange callback is called, and LoadFromDataSource starts no loop.
C8_NoPartialApply ==
  [][/\ \A content \in Undecodable :
          (Load(Parent, content) \/ LoadFromReader(Parent, TRUE, content)) =>
             /\ last'.err = "decode"
             /\ Tree(Parent)' = Tree(Parent)
             /\ heap' = heap /\ keyMap' = keyMap
             /\ gen' = NoGen
             /\ loop' = loop
     /\ \A readOk \in BOOLEAN, content \in DSContents :
          ((~readOk \/ content \in Undecodable) /\ LoadFromDataSource(readOk, content)) =>
             /\ last'.err = (IF readOk THEN "decode" ELSE "read")
             /\ Tree(Parent)' = Tree(Parent)
             /\ heap' = heap /\ keyMap' = keyMap
             /\ gen' = NoGen
             /\ loop' = "none"]_vars

\* C8 witness: LoadFromDataSource returned the decoder's error on a
\* Configuration that holds a = 1, has it cached, and has an OnChange and a
\* watch callback registered; no loop runs
C8_Witness ==
  /\ last.op = "LoadFromDataSource" /\ last.err = "decode"
  /\ loop = "none"
  /\ PathVal(Tree(Parent), Split(sa, defaultKeyDelim)) = PLeaf(IntV(1))
  /\ sa \in DOMAIN keyMap[Parent]
  /\ onChanges > 0 /\ sa \in DOMAIN watchers

\* C9: apart from the initial load of LoadFromDataSource and its pass, the
\* registered OnChange callbacks are called for a merge generation exactly
\* when its ChangeSet is not empty; a change signal whose payload changes
\* nothing or does not decode calls none.
C9_GlobalOnChangeOnly ==
  (onChanges > 0 /\ last.op \notin {"LoadFromDataSource", "InitialHook"} /\ ~crashed) =>
     (gen.global > 0 <=> (gen.merged /\ gen.changes # {}))

\* C10: after the first successful LoadFromDataSource the OnChange callbacks
\* registered before the call are each called once for the initial load, and
\* no watch callback is started before that pass, neither by the initial
\* merge nor by a Set or Load that follows the return.
C10_InitialHookFirst ==
  /\ (early => atCall = 0)
  /\ (last.op = "InitialHook" /\ atCall > 0) => gen.global = 1

\* C11: a round of the reload loop whose ReadConfig or decode fails leaves the
\* tree and every cached value as they were and does not stop the loop (no
\* caller sees the error); a round with a readable, decodable payload, also
\* after failed ones, merges it as Load does.
C11_FailedReloadSkipped ==
  [][\A readOk \in BOOLEAN, content \in DSContents :
       LoopReload(readOk, content) =>
          /\ loop' = "wait" /\ ~crashed'
          /\ last'.op = "Reload"
          /\ (~readOk \/ ~Decodes(content)) =>
                /\ Tree(Parent)' = Tree(Parent)
                /\ heap' = heap /\ keyMap' = keyMap
                /\ ~gen'.merged
          /\ (readOk /\ Decodes(content)) =>
                /\ gen'.merged
                /\ Tree(Parent)' = DeepUnion(Tree(Parent), Payload(content))
                /\ \A l \in PLeaves(Payload(content), <<>>) : GetResult(Parent, l[1])' = l[2]]_vars

\* C11 witness: after a failed round, a later round merged {a:2} over a = 1
C11_Witness ==
  /\ skipped /\ loop = "wait"
  /\ last.op = "Reload" /\ last.err = "nil" /\ last.content = "A2"
  /\ gen.merged /\ gen.changes = {sa}
  /\ PathVal(Tree(Parent), Split(sa, defaultKeyDelim)) = PLeaf(IntV(2))

\* path p is path q or an ancestor of it
IsAncestorOrSelf(p, q) == Len(p) <= Len(q) /\ SubSeq(q, 1, Len(p)) = p

\* k2 is neither key, nor an ancestor path of key, nor a descendant path of it
Unrelated(k2, key) ==
  LET p == Split(key, defaultKeyDelim)
      q == Split(k2, defaultKeyDelim)
  IN  ~IsAncestorOrSelf(p, q) /\ ~IsAncestorOrSelf(q, p)

\* the dotted keys the frame of Set is observed on
FrameKeys == {sa, sb, sx, sab, sa \o dot \o sx, sa \o dot \o sb}

\* C12: Set(key, val) leaves the tree value and Get of every dotted key that
\* is neither key nor an ancestor nor a descendant of key as they were, and
\* no such key is in the ChangeSet of the Set; Set("a.x", v) creates no root
\* key "x".
C12_SetFrame ==
  [][\A key \in StoreSetKeys, val \in SetVals :
       (Set(Parent, key, val) /\ ~crashed') =>
          \A k2 \in FrameKeys :
             Unrelated(k2, key) =>
                /\ PathVal(Tree(Parent), Split(k2, defaultKeyDelim))' =
                      PathVal(Tree(Parent), Split(k2, defaultKeyDelim))
                /\ GetResult(Parent, k2)' = GetResult(Parent, k2)
                /\ k2 \notin gen'.changes]_vars

\* the cache of c holds, for every dotted key flattening the tree of c gives,
\* the flattened value, and Get returns it
Coherent(c) ==
  \A data \in traverse(heap, override[c], defaultKeyDelim) :
     \A key \in DOMAIN data :
        /\ key \in DOMAIN keyMap[c]
        /\ keyMap[c][key] = data[key]
        /\ GetResult(c, key) = PLeaf(data[key])

\* C13: once a Load or Set on a Configuration has completed, its cache holds
\* the flattened value for every dotted key that flattening its tree gives,
\* and Get of every leaf key returns the leaf: right after the merge, and in
\* every later state of a Configuration that was merged into.
C13_CacheCoherent ==
  ~crashed =>
     /\ (last.op \in {"Load", "Set"} /\ last.err = "nil") => Coherent(last.c)
     /\ Tree(Parent) # EmptyMap => Coherent(Parent)

\* C14: a key that Get resolved to absent stays absent for every later Get
\* until a merge; after a merge that leaves a value (a leaf or a mapping) at
\* the path of the key, Get returns that value, so UnmarshalKey no longer
\* returns ErrInvalidKey.
C14_NegativeCacheCorrected ==
  [][\A key \in ReadKeys :
       (key \in DOMAIN keyMap[Parent] /\ keyMap[Parent][key] = Nil) =>
          /\ Get(Parent, key) => last'.val = NoVal
          /\ ((\E content \in ReadContents : Load(Parent, content)) /\
              PathVal(Tree(Parent), Split(key, defaultKeyDelim))' # NoVal) =>
                GetResult(Parent, key)' = PathVal(Tree(Parent), Split(key, defaultKeyDelim))']_vars

\* a merge on the parent with the inputs of the store
StoreMerge ==
  \/ \E content \in StoreContents : Load(Parent, content)
  \/ \E key \in StoreSetKeys, val \in SetVals : Set(Parent, key, val)

\* C15: the first merge into a new Configuration has an empty ChangeSet and
\* starts no watch callback, whatever prefixes are watched and whatever keys
\* were read before it; a key is in a ChangeSet only if the tree held a value
\* for it before the merge and holds another one after it.
C15_FirstLoadNoChanges ==
  [][(StoreMerge /\ ~crashed') =>
       /\ Tree(Parent) = EmptyMap => (gen'.changes = {} /\ ~Started(gen'))
       /\ \A key \in gen'.changes :
             /\ PathVal(Tree(Parent), Split(key, defaultKeyDelim)) # NoVal
             /\ PathVal(Tree(Parent), Split(key, defaultKeyDelim)) #
                   PathVal(Tree(Parent), Split(key, defaultKeyDelim))']_vars

\* C18: the reload loop does not end while the provider's change stream is
\* open, whatever reads or decodes fail; once the stream has ended the loop
\* ends, and after that it reads, merges and calls nothing.
C18_LoopLifetime ==
  /\ [][/\ (loop \in {"hook", "wait"} /\ stream = "open") => loop' \in {"hook", "wait"}
        /\ (loop # "done" /\ loop' = "done") => (stream = "closed" /\ signals = 0)
        /\ loop = "done" =>
              /\ loop' = "done"
              /\ ~LoopInitialHook
              /\ \A readOk \in BOOLEAN, content \in DSContents : ~LoopReload(readOk, content)]_vars
  /\ ((loop \in {"hook", "wait"} /\ stream = "closed") ~> loop = "done")

\* C18 witness: the loop has ended, after a round that failed, with the
\* stream closed; a caller's Set ran after the end
C18_Witness ==
  /\ loop = "done" /\ stream = "closed" /\ skipped
  /\ last.op = "Set"

\* the leaves of a tree value, each with its path of segments
RECURSIVE LeafPaths(_, _)
LeafPaths(t, path) ==
  UNION {IF t[k].k = "pmap"
         THEN LeafPaths(t[k].m, Append(path, k))
         ELSE {<<Append(path, k), t[k]>>} : k \in DOMAIN t}

\* the segments of a path joined with the delimiter, none in front
RECURSIVE JoinPath(_)
JoinPath(path) ==
  IF Len(path) = 1 THEN path[1]
  ELSE path[1] \o <<defaultKeyDelim>> \o JoinPath(Tail(path))

\* C19: flattening a tree gives one entry for each leaf, keyed by the leaf's
\* segments joined with the delimiter and holding the leaf's value, and no
\* other entry; two leaves never share an entry, also when a segment holds
\* the delimiter.
C19_FlattenExact ==
  ~crashed =>
     \A data \in traverse(heap, override[Parent], defaultKeyDelim) :
        LET LP == LeafPaths(Tree(Parent), <<>>)
        IN  /\ \A lp \in LP : /\ JoinPath(lp[1]) \in DOMAIN data
                               /\ PLeaf(data[JoinPath(lp[1])]) = lp[2]
            /\ \A key \in DOMAIN data : \E lp \in LP : JoinPath(lp[1]) = key
            /\ Cardinality(DOMAIN data) = Cardinality(LP)

\* a step of t that writes the tree: Set's unlocked part, or apply
TreeWrite(t) ==
  \/ \E key \in LockSetKeys : Set_Write(t, key, IntV(1))
  \/ apply_Run(t)

\* C16: with Set, Load and Get calls running at the same time, every write to
\* the tree (the leaf assignment and the maps deepSearch creates included) is
\* made by a task that holds c.mu exclusively, so while no other task reads
\* or writes the tree inside the lock.
C16_TreeWritesLocked ==
  [][\A t \in Tasks :
       (TreeWrite(t) /\ Tree(Parent)' # Tree(Parent)) =>
          /\ mu.w = t
          /\ \A u \in Tasks \ {t} : ~Inside(u)]_vars

\* t waits for c.mu and cannot get it now
Blocked(t) ==
  \/ pc[t].at = "waitLock" /\ ~CanLock
  \/ pc[t].at = "rlock" /\ ~CanRLock

\* tasks wait for c.mu and every task inside it is one of them: none of them
\* ever goes on
Stuck ==
  /\ \E t \in Tasks : Blocked(t)
  /\ \E u \in Tasks : Inside(u)
  /\ \A u \in Tasks : Inside(u) => Blocked(u)

\* C17: while a callback runs, the task that called it (the goroutine's pass
\* over c.onChanges) holds c.mu neither for reading nor for writing; a
\* callback that calls Set, Load, OnChange or Get is never stuck, and the
\* goroutine and a callback never wait for each other.
C17_CallbacksOutsideLock ==
  /\ pc[Loop].at = "cb" => ~Inside(Loop)
  /\ ~Stuck
====
